---- MODULE Spec2Model ----
(***************************************************************************)
(* Crewhu / ConnectWise synchronisation scripts: the run entry points      *)
(* (link update, rating update, note posting, note cleanup, JSON reformat  *)
(* and the three web variants of app.py) as one state machine over the     *)
(* remote ticketing API's state.                                           *)
(*                                                                         *)
(* A text is a sequence of string tokens; "x in text" of the source is     *)
(* token membership.  A remote response is the status code as a string,    *)
(* or Raise when the requests call raises (connection error, timeout).     *)
(***************************************************************************)
EXTENDS Integers, Sequences, FiniteSets, TLC

VARIABLES
    entry,      \* the entry point that runs
    dryRun,     \* DRY_RUN / dry_run of that entry point
    missing,    \* the CW_* environment variables that are not set
    csv,        \* link update: the Ticket# cell of each row of the CSV file
    input,      \* the loaded batch: entries, tickets, rows or emails
    notifs,     \* link update: the loaded notifications
    pc,         \* "start", "loop", "done", "fatal" (credentials), "crashed"
    i,          \* index of the next item of input
    run,        \* number of the current run (note flows may be re-run)
    tally,      \* the counters the entry point reports
    dryTally,   \* the counters the same batch yields with the dry-run flag set
    mutOk,      \* every mutating call so far was answered with the status the code accepts
    faults,     \* remote calls so far that were not answered with the status the code accepts
    nCalls,     \* remote calls issued
    nMut,       \* PATCH, POST and DELETE calls issued
    last,       \* the item processed last: its calls, what was fetched, its outcome
    notes,      \* remote: the notes of each ticket
    nextId,     \* remote: the id the next created note gets
    fields,     \* remote: the customFields of each ticket
    rating,     \* remote: the value of the rating field of each ticket
    surveys,    \* reformat: the survey index built so far
    written,    \* reformat: the output file was written
    status_queues, \* web: the registry of progress queues, session id -> queue
    queues,     \* web: the queue.Queue objects created so far, each its pending statuses
    streams,    \* web: the /api/stream generators, each with its position and its queue
    threads     \* web: the batch threads started by the batch-start routes

vars == <<entry, dryRun, missing, csv, input, notifs, pc, i, run, tally, dryTally,
          mutOk, faults, nCalls, nMut, last, notes, nextId, fields, rating,
          surveys, written, status_queues, queues, streams, threads>>

batchVars == <<entry, dryRun, missing, csv, input, notifs, pc, i, run, tally, dryTally,
               mutOk, faults, nCalls, nMut, last, notes, nextId, fields, rating,
               surveys, written>>

webVars == <<status_queues, queues, streams, threads>>

\* status_queues = {} at import, no request served yet
WebInit ==
    /\ status_queues = [s \in {} |-> 0]
    /\ queues = <<>>
    /\ streams = <<>>
    /\ threads = <<>>

-----------------------------------------------------------------------------
(* Bounds *)

MaxBatch == 2
MaxRuns == 2
MaxFaults == 1

Tickets == {1, 2, 12}
NoteTickets == {1, 2}

-----------------------------------------------------------------------------
(* Remote responses *)

Raise == "ConnectionError"
GetResponses == {"200", "404", "500", Raise}
DeleteResponses == {"204", "500", Raise}
PostResponses == {"201", "500", Raise}
PatchResponses == {"200", "204", "500", Raise}

\* a status outside 2xx
NonSuccess(r) == r \in {"404", "500"}

Call(op, id, r) == [op |-> op, id |-> id, resp |-> r]

-----------------------------------------------------------------------------
(* Texts *)

JGA == "just gave a"
CF == "Customer feedback:"

Contains(text, tok) == \E k \in 1..Len(text) : text[k] = tok

Whitespace == {" ", "\n", "\n\n"}

RECURSIVE LStrip(_)
LStrip(text) ==
    IF text # <<>> /\ Head(text) \in Whitespace THEN LStrip(Tail(text)) ELSE text

RECURSIVE RStrip(_)
RStrip(text) ==
    IF text # <<>> /\ text[Len(text)] \in Whitespace
    THEN RStrip(SubSeq(text, 1, Len(text) - 1))
    ELSE text

\* str.strip()
Strip(text) == LStrip(RStrip(text))

\* the content test of the deletion steps
IsAutomationNote(text) == Contains(text, JGA) /\ Contains(text, CF)

\* final_note_text = f"{summary}\n\nCustomer feedback:\n{feedback}"
NoteText(summary, feedback) == summary \o <<"\n\n", CF, "\n">> \o feedback

-----------------------------------------------------------------------------
(* The remote ticketing API (spec section 6) *)

RemoveNote(ns, id) == SelectSeq(ns, LAMBDA n : n.id # id)

\* DELETE /tickets/{id}/notes/{noteId}: 200/204 when the note was removed
BackendDelete(ns, id, r) == IF r \in {"200", "204"} THEN RemoveNote(ns, id) ELSE ns

\* POST /tickets/{id}/notes: 201 when the note was created
BackendPost(ns, id, text, r) ==
    IF r = "201"
    THEN Append(ns, [id |-> id, text |-> text, createdBy |-> "Crewhu API"])
    ELSE ns

CountAutomation(ns) == Len(SelectSeq(ns, LAMBDA n : IsAutomationNote(n.text)))

-----------------------------------------------------------------------------
(* Note posting: POST_Notes_Internal.py *)

\* entry.get("ticket_number") of an entry without one; "not ticket_id" holds
MissingTicket == 0

\* the positions of the notes the deletion steps recognize
AutoPositions(ns) == {k \in 1..Len(ns) : IsAutomationNote(ns[k].text)}

\* a delete loop that walks the notes without issuing any DELETE
DeleteLoop_IssuesNothing(fetched, k, delResp, acc) == acc

\* the loop over the fetched notes; a DELETE that raises leaves the loop
\* through the enclosing except
RECURSIVE DeleteLoop(_, _, _, _)
DeleteLoop(fetched, k, delResp, acc) ==
    IF k > Len(fetched) \/ acc.raised THEN acc
    ELSE IF IsAutomationNote(fetched[k].text)
         THEN DeleteLoop(fetched, k + 1, delResp,
                [notes  |-> BackendDelete(acc.notes, fetched[k].id, delResp[k]),
                 log    |-> Append(acc.log, Call("DELETE", fetched[k].id, delResp[k])),
                 raised |-> delResp[k] = Raise])
         ELSE DeleteLoop(fetched, k + 1, delResp, acc)

\* a cleanup that fetches the notes and leaves them all in place
DeleteAutomatedNotes_FetchOnly(ns, dry, getResp, delResp) ==
    IF dry THEN [notes |-> ns, log |-> <<>>, fetched |-> <<>>]
    ELSE [notes |-> ns, log |-> <<Call("GET_NOTES", 0, getResp)>>,
          fetched |-> IF getResp = "200" THEN ns ELSE <<>>]

DeleteAutomatedNotes(ns, dry, getResp, delResp) ==
    IF dry THEN [notes |-> ns, log |-> <<>>, fetched |-> <<>>]
    ELSE LET get == <<Call("GET_NOTES", 0, getResp)>> IN
         IF getResp # "200"
         THEN [notes |-> ns, log |-> get, fetched |-> <<>>]
         ELSE LET d == DeleteLoop(ns, 1, delResp,
                                  [notes |-> ns, log |-> get, raised |-> FALSE])
              IN [notes |-> d.notes, log |-> d.log, fetched |-> ns]

\* a post that does not look at the dry-run flag
PostNote_IgnoresDryRun(summary, feedback, ns, dry, postResp, newId) ==
    [notes |-> BackendPost(ns, newId, NoteText(summary, feedback), postResp),
     log   |-> <<Call("POST", 0, postResp)>>]

PostNote(summary, feedback, ns, dry, postResp, newId) ==
    IF dry THEN [notes |-> ns, log |-> <<>>]
    ELSE [notes |-> BackendPost(ns, newId, NoteText(summary, feedback), postResp),
          log   |-> <<Call("POST", 0, postResp)>>]

\* a loop body that puts the deleted notes back when the POST fails
NotesMainEntry_RollsBack(e, ns, dry, getResp, delResp, postResp, newId) ==
    IF e.ticket_number = MissingTicket
    THEN [notes |-> ns, log |-> <<>>, fetched |-> <<>>, outcome |-> "none",
          crashed |-> FALSE]
    ELSE LET d == DeleteAutomatedNotes(ns, dry, getResp, delResp)
             p == PostNote(Strip(e.summary), Strip(e.customer_feedback), d.notes,
                           dry, postResp, newId)
         IN [notes |-> IF dry \/ postResp = "201" THEN p.notes ELSE ns,
             log |-> d.log \o p.log, fetched |-> d.fetched,
             outcome |-> "none", crashed |-> FALSE]

\* the body of main's loop; the script keeps no counters
NotesMainEntry(e, ns, dry, getResp, delResp, postResp, newId) ==
    IF e.ticket_number = MissingTicket
    THEN [notes |-> ns, log |-> <<>>, fetched |-> <<>>, outcome |-> "none",
          crashed |-> FALSE]
    ELSE LET d == DeleteAutomatedNotes(ns, dry, getResp, delResp)
             p == PostNote(Strip(e.summary), Strip(e.customer_feedback), d.notes,
                           dry, postResp, newId)
         IN [notes |-> p.notes, log |-> d.log \o p.log, fetched |-> d.fetched,
             outcome |-> "none", crashed |-> FALSE]

-----------------------------------------------------------------------------
(* Note posting, web variant: app.run_post_notes *)

\* "Delete old automated notes first": the statuses are not looked at and
\* every exception is passed over
WebDeleteOld(ns, getResp, delResp) ==
    LET get == <<Call("GET_NOTES", 0, getResp)>> IN
    IF getResp # "200"
    THEN [notes |-> ns, log |-> get, fetched |-> <<>>]
    ELSE LET d == DeleteLoop(ns, 1, delResp,
                             [notes |-> ns, log |-> get, raised |-> FALSE])
         IN [notes |-> d.notes, log |-> d.log, fetched |-> ns]

\* the body of run_post_notes's loop: posted counts as updated
RunPostNotesEntry(e, ns, dry, getResp, delResp, postResp, newId) ==
    IF e.ticket_number = MissingTicket
    THEN [notes |-> ns, log |-> <<>>, fetched |-> <<>>, outcome |-> "none",
          crashed |-> FALSE]
    ELSE IF dry
    THEN [notes |-> ns, log |-> <<>>, fetched |-> <<>>, outcome |-> "updated",
          crashed |-> FALSE]
    ELSE LET d == WebDeleteOld(ns, getResp, delResp)
             text == NoteText(Strip(e.summary), Strip(e.customer_feedback))
         IN [notes   |-> BackendPost(d.notes, newId, text, postResp),
             log     |-> Append(d.log, Call("POST", 0, postResp)),
             fetched |-> d.fetched,
             outcome |-> IF postResp = "201" THEN "updated" ELSE "error",
             crashed |-> FALSE]

-----------------------------------------------------------------------------
(* Note cleanup: deleteNotes.py *)

RECURSIVE CleanupLoop(_, _, _, _, _)
CleanupLoop(fetched, k, dry, delResp, acc) ==
    IF k > Len(fetched) \/ acc.raised THEN acc
    ELSE IF IsAutomationNote(fetched[k].text) /\ ~dry
         THEN CleanupLoop(fetched, k + 1, dry, delResp,
                [notes  |-> BackendDelete(acc.notes, fetched[k].id, delResp[k]),
                 log    |-> Append(acc.log, Call("DELETE", fetched[k].id, delResp[k])),
                 raised |-> delResp[k] = Raise])
         ELSE CleanupLoop(fetched, k + 1, dry, delResp, acc)

ProcessTicketDeletion(ns, dry, getResp, delResp) ==
    LET get == <<Call("GET_NOTES", 0, getResp)>> IN
    IF getResp = "404" \/ getResp # "200"
    THEN [notes |-> ns, log |-> get, fetched |-> <<>>]
    ELSE LET d == CleanupLoop(ns, 1, dry, delResp,
                              [notes |-> ns, log |-> get, raised |-> FALSE])
         IN [notes |-> d.notes, log |-> d.log, fetched |-> ns]

\* the body of main's loop; the script keeps no counters
CleanupMainEntry(e, ns, dry, getResp, delResp) ==
    IF e.ticket_number = MissingTicket
    THEN [notes |-> ns, log |-> <<>>, fetched |-> <<>>, outcome |-> "none",
          crashed |-> FALSE]
    ELSE LET d == ProcessTicketDeletion(ns, dry, getResp, delResp)
         IN [notes |-> d.notes, log |-> d.log, fetched |-> d.fetched,
             outcome |-> "none", crashed |-> FALSE]

-----------------------------------------------------------------------------
(* Ticket numbers as text *)

\* A cell of the Ticket# column is a sequence of characters.
Digits == {"0", "1", "2", "3", "4", "5", "6", "7", "8", "9"}

\* str.split(".")[0]
RECURSIVE BeforeDot(_)
BeforeDot(cell) ==
    IF cell = <<>> \/ Head(cell) = "." THEN <<>>
    ELSE <<Head(cell)>> \o BeforeDot(Tail(cell))

\* str.isdigit()
IsDigit(cell) == cell # <<>> /\ \A k \in 1..Len(cell) : cell[k] \in Digits

DigitValue(c) ==
    CASE c = "0" -> 0 [] c = "1" -> 1 [] c = "2" -> 2 [] c = "3" -> 3 [] c = "4" -> 4
      [] c = "5" -> 5 [] c = "6" -> 6 [] c = "7" -> 7 [] c = "8" -> 8 [] c = "9" -> 9

\* the ticket the URL built from the digits addresses
RECURSIVE TicketOf(_)
TicketOf(cell) ==
    IF cell = <<>> THEN 0
    ELSE 10 * TicketOf(SubSeq(cell, 1, Len(cell) - 1)) + DigitValue(cell[Len(cell)])

DigitChar(n) ==
    CASE n = 0 -> "0" [] n = 1 -> "1" [] n = 2 -> "2" [] n = 3 -> "3" [] n = 4 -> "4"
      [] n = 5 -> "5" [] n = 6 -> "6" [] n = 7 -> "7" [] n = 8 -> "8" [] n = 9 -> "9"

\* the decimal form of a positive number
RECURSIVE Decimal(_)
Decimal(n) ==
    IF n < 10 THEN <<DigitChar(n)>> ELSE Decimal(n \div 10) \o <<DigitChar(n % 10)>>

IsPrefix(a, b) == Len(a) <= Len(b) /\ SubSeq(b, 1, Len(a)) = a

-----------------------------------------------------------------------------
(* Link update: GET&POST_Links.py *)

\* A notification's FullBody, as far as the link resolver reads it: the
\* number that follows "ticket# " (0: no marker) and the text the survey-link
\* pattern matches (<<>>: no link), whose last tokens may be "." characters.

\* load_ticket_numbers_from_csv, on the Ticket# cells of the rows: the digit
\* strings kept in the set
TicketStrings(cells) ==
    {BeforeDot(Strip(cells[k])) : k \in {j \in 1..Len(cells) :
        cells[j] # <<>> /\ IsDigit(BeforeDot(Strip(cells[j])))}}

\* sorted(ticket_numbers, key=int): the strings in ascending order of their
\* number; strings of the same number keep the set's iteration order, which
\* is any order
LoadTicketNumbersFromCsv(cells) ==
    LET S == TicketStrings(cells) IN
    {out \in [1..Cardinality(S) -> S] :
        /\ \A x \in S : \E k \in 1..Cardinality(S) : out[k] = x
        /\ \A j, k \in 1..Cardinality(S) : j < k => TicketOf(out[j]) <= TicketOf(out[k])}

\* "ticket# {t}" in full_body, for a ticket string t and a body that names
\* ticket d: t is a prefix of the decimal form of d
MarkerIn(t, d) == d # 0 /\ IsPrefix(t, Decimal(d))

\* str.rstrip(">.")
RECURSIVE RStripChars(_)
RStripChars(url) ==
    IF url # <<>> /\ url[Len(url)] \in {">", "."}
    THEN RStripChars(SubSeq(url, 1, Len(url) - 1))
    ELSE url

\* None
NoLink == <<>>

\* a resolver that lets a later qualifying notification win
RECURSIVE GetSurveyLinkForTicket_FindsLast(_, _)
GetSurveyLinkForTicket_FindsLast(t, notifications) ==
    IF notifications = <<>> THEN NoLink
    ELSE LET n == notifications[Len(notifications)] IN
         IF MarkerIn(t, n.ticket) /\ n.url # <<>>
         THEN RStripChars(n.url)
         ELSE GetSurveyLinkForTicket_FindsLast(t, SubSeq(notifications, 1,
                                                       Len(notifications) - 1))

RECURSIVE GetSurveyLinkForTicket(_, _)
GetSurveyLinkForTicket(t, notifications) ==
    IF notifications = <<>> THEN NoLink
    ELSE IF MarkerIn(t, Head(notifications).ticket) /\ Head(notifications).url # <<>>
         THEN RStripChars(Head(notifications).url)
         ELSE GetSurveyLinkForTicket(t, Tail(notifications))

\* caption.lower(), on the captions of the model
LowerCaption(c) ==
    CASE c = "Latest Crewhu Survey" -> "latest crewhu survey"
      [] c = "CrewHu Rating"        -> "crewhu rating"
      [] OTHER                      -> "department"

\* "crewhu" in caption.lower()
HasCrewhu(lower) == lower \in {"latest crewhu survey", "crewhu rating"}

IsCrewhuField(f) ==
    \/ LowerCaption(f.caption) = "latest crewhu survey"
    \/ HasCrewhu(LowerCaption(f.caption))

Candidates(custom_fields) == SelectSeq(custom_fields, IsCrewhuField)

\* list.index(x): the first position holding a field equal to x, from 0
IndexOf(custom_fields, x) ==
    (CHOOSE k \in 1..Len(custom_fields) :
        /\ custom_fields[k] = x
        /\ \A j \in 1..(k - 1) : custom_fields[j] # x) - 1

\* PATCH /tickets/{id} replace /customFields/{idx}/value: 200/204 when applied
BackendPatchField(custom_fields, idx, value, r) ==
    IF r \in {"200", "204"}
    THEN [custom_fields EXCEPT ![idx + 1].value = value]
    ELSE custom_fields

\* neither requests call stands in a try: a call that raises ends the script
UpdateTicketCrewhuField(custom_fields, survey_link, dry, getResp, patchResp) ==
    LET get == <<Call("GET_TICKET", 0, getResp)>>
        no(log) == [fields |-> custom_fields, log |-> log, ok |-> FALSE, crashed |-> FALSE]
    IN IF getResp = Raise
       THEN [fields |-> custom_fields, log |-> get, ok |-> FALSE, crashed |-> TRUE]
       ELSE IF getResp # "200" THEN no(get)
       ELSE IF custom_fields = <<>> THEN no(get)
       ELSE IF Candidates(custom_fields) = <<>> THEN no(get)
       ELSE LET candidates == Candidates(custom_fields)
                latest_field == candidates[Len(candidates)]
                idx == IndexOf(custom_fields, latest_field)
                log == Append(get, Call("PATCH_FIELD", idx, patchResp))
            IN IF dry
               THEN [fields |-> custom_fields, log |-> get, ok |-> TRUE, crashed |-> FALSE]
               ELSE IF patchResp = Raise
               THEN [fields |-> custom_fields, log |-> log, ok |-> FALSE, crashed |-> TRUE]
               ELSE [fields  |-> BackendPatchField(custom_fields, idx, survey_link, patchResp),
                     log     |-> log,
                     ok      |-> patchResp \in {"200", "204"},
                     crashed |-> FALSE]

\* the body of main's loop: processed counts as updated, missing_link as skipped
LinksMainTicket(t, notifications, custom_fields, dry, getResp, patchResp) ==
    LET survey_link == GetSurveyLinkForTicket(t, notifications) IN
    IF survey_link = NoLink
    THEN [fields |-> custom_fields, log |-> <<>>, outcome |-> "skipped", crashed |-> FALSE]
    ELSE LET u == UpdateTicketCrewhuField(custom_fields, survey_link, dry, getResp, patchResp)
         IN [fields  |-> u.fields,
             log     |-> u.log,
             outcome |-> IF u.crashed THEN "none" ELSE IF u.ok THEN "updated" ELSE "error",
             crashed |-> u.crashed]

-----------------------------------------------------------------------------
(* Rating update: POST_Ratings.py and app.run_post_ratings *)

\* a normalisation that folds every non-empty label onto a mapped one
NormalizeRating_FoldsUnmapped(label) ==
    CASE label = "NEGATIVE" -> "NEGATIVE"
      [] OTHER              -> "POSITIVE"

\* str(row.get('Rating', '')).strip().upper(), on the labels of the model
NormalizeRating(label) ==
    CASE label = "Awesome"    -> "AWESOME"
      [] label = " positive " -> "POSITIVE"
      [] label = "NEGATIVE"   -> "NEGATIVE"
      [] label = "Good"       -> "GOOD"
      [] OTHER                -> ""

RATING_MAP ==
    [r \in {"AWESOME", "POSITIVE", "NEGATIVE"} |->
        IF r = "NEGATIVE" THEN "Negative" ELSE "Positive"]

\* PATCH /tickets/{id} replace customFields: 200/204 when applied
BackendPatchRating(rt, t, value, r) ==
    IF r \in {"200", "204"} /\ t \in DOMAIN rt THEN [rt EXCEPT ![t] = value] ELSE rt

\* a rating update whose dry run reports a failure
UpdateTicketRating_DryFails(rt, ticket_id, rating_value, dry, patchResp) ==
    IF dry THEN [rating |-> rt, log |-> <<>>, ok |-> FALSE]
    ELSE [rating |-> BackendPatchRating(rt, TicketOf(ticket_id), rating_value, patchResp),
          log    |-> <<Call("PATCH_RATING", 0, patchResp)>>,
          ok     |-> patchResp = "200"]

UpdateTicketRating(rt, ticket_id, rating_value, dry, patchResp) ==
    IF dry THEN [rating |-> rt, log |-> <<>>, ok |-> TRUE]
    ELSE [rating |-> BackendPatchRating(rt, TicketOf(ticket_id), rating_value, patchResp),
          log    |-> <<Call("PATCH_RATING", 0, patchResp)>>,
          ok     |-> patchResp = "200"]

\* the body of main's loop
RatingsMainRow(row, rt, dry, patchResp) ==
    LET ticket_id == BeforeDot(row.Ticket)
        rating_label == NormalizeRating(row.Rating)
    IN IF ~IsDigit(ticket_id)
       THEN [rating |-> rt, log |-> <<>>, outcome |-> "skipped", crashed |-> FALSE]
       ELSE IF rating_label \notin DOMAIN RATING_MAP
       THEN [rating |-> rt, log |-> <<>>, outcome |-> "skipped", crashed |-> FALSE]
       ELSE LET u == UpdateTicketRating(rt, ticket_id, RATING_MAP[rating_label], dry, patchResp)
            IN [rating |-> u.rating, log |-> u.log,
                outcome |-> IF u.ok THEN "updated" ELSE "error", crashed |-> FALSE]

\* the body of run_post_ratings's loop
RunPostRatingsRow(row, rt, dry, patchResp) ==
    LET ticket_id == BeforeDot(row.Ticket)
        rating_label == NormalizeRating(row.Rating)
    IN IF ~IsDigit(ticket_id)
       THEN [rating |-> rt, log |-> <<>>, outcome |-> "skipped", crashed |-> FALSE]
       ELSE IF rating_label \notin DOMAIN RATING_MAP
       THEN [rating |-> rt, log |-> <<>>, outcome |-> "skipped", crashed |-> FALSE]
       ELSE IF dry
       THEN [rating |-> rt, log |-> <<>>, outcome |-> "updated", crashed |-> FALSE]
       ELSE [rating  |-> BackendPatchRating(rt, TicketOf(ticket_id),
                                            RATING_MAP[rating_label], patchResp),
             log     |-> <<Call("PATCH_RATING", 0, patchResp)>>,
             outcome |-> IF patchResp = "200" THEN "updated" ELSE "error",
             crashed |-> FALSE]

-----------------------------------------------------------------------------
(* JSON reformat: reformatJSON.py and app.run_reformat_json *)

\* An email is a Subject (a sequence of words) and a FullBody (a sequence of
\* lines, each a sequence of words).  The words the patterns name are single
\* tokens: "from", "gave a", "rating to", "Rating for", "on ticket#", "(",
\* ")", "to your colleague", "Customer feedback:", a run of digits, ".".

\* str.lower(), on the words whose case the code folds
LowerTok(w) ==
    CASE w = "Rating"     -> "rating"
      [] w = "Rating for" -> "rating for"
      [] w = "Rating to"  -> "rating to"
      [] w = "Gave a"     -> "gave a"
      [] OTHER            -> w

\* substring in text.lower()
ContainsLower(text, tok) == \E k \in 1..Len(text) : LowerTok(text[k]) = tok

\* \d+
IsNumber(w) == w \in {"1", "2", "12"}

NumberOf(w) == CASE w = "1" -> 1 [] w = "2" -> 2 [] OTHER -> 12

\* An item of a pattern: a literal (or "\d+") and whether a lazy group, which
\* takes any words, stands before it.
Lit(w) == [lit |-> w, gap |-> FALSE]
Gap(w) == [lit |-> w, gap |-> TRUE]

ItemMatches(w, item) ==
    CASE item.lit = "\\d+" -> IsNumber(w)
      [] item.lit = ".+"   -> TRUE
      [] OTHER             -> LowerTok(w) = item.lit

NoMatch == [ok |-> FALSE, at |-> <<>>]

\* re.search with lazy groups and re.IGNORECASE: the positions of the
\* pattern's items in the line, every group as short as the rest allows
RECURSIVE MatchFrom(_, _, _)
MatchFrom(line, pos, pat) ==
    IF pat = <<>> THEN [ok |-> TRUE, at |-> <<>>]
    ELSE IF pos > Len(line) THEN NoMatch
    ELSE LET item == Head(pat)
             here == IF ItemMatches(line[pos], item)
                     THEN MatchFrom(line, pos + 1, Tail(pat))
                     ELSE NoMatch
         IN IF here.ok THEN [ok |-> TRUE, at |-> <<pos>> \o here.at]
            ELSE IF item.gap THEN MatchFrom(line, pos + 1, pat)
            ELSE NoMatch

Between(line, a, b) == SubSeq(line, a + 1, b - 1)

\* REGEX_REVIEW and its groupdict
REGEX_REVIEW ==
    <<Gap("from"), Gap("gave a"), Gap("rating to"), Gap("for"), Gap("on ticket#"),
      Lit("\\d+"), Lit("("), Gap(")")>>

MatchReview(line) ==
    LET m == MatchFrom(line, 1, REGEX_REVIEW) IN
    IF ~m.ok THEN [ok |-> FALSE]
    ELSE [ok          |-> TRUE,
          customer    |-> Between(line, 0, m.at[1]),
          company     |-> Between(line, m.at[1], m.at[2]),
          rating      |-> Between(line, m.at[2], m.at[3]),
          employee    |-> Between(line, m.at[3], m.at[4]),
          categories  |-> Between(line, m.at[4], m.at[5]),
          ticket_id   |-> line[m.at[6]],
          ticket_desc |-> Between(line, m.at[7], m.at[8])]

\* REGEX_WOOHOO up to "to your colleague "
WoohooHead ==
    <<Gap("from"), Gap("gave a"), Gap("rating for"), Gap("on ticket#"),
      Lit("\\d+"), Lit("("), Gap(")"), Lit("to your colleague")>>

WoohooFields(line, m, employee) ==
    [ok          |-> TRUE,
     customer    |-> Between(line, 0, m.at[1]),
     company     |-> Between(line, m.at[1], m.at[2]),
     rating      |-> Between(line, m.at[2], m.at[3]),
     employee    |-> employee,
     categories  |-> Between(line, m.at[3], m.at[4]),
     ticket_id   |-> line[m.at[5]],
     ticket_desc |-> Between(line, m.at[6], m.at[7])]

\* REGEX_WOOHOO of reformatJSON.py ends with the lazy group (?P<employee>.*?):
\* nothing follows it, so it takes no word
MatchWoohoo(line) ==
    LET m == MatchFrom(line, 1, WoohooHead) IN
    IF ~m.ok THEN [ok |-> FALSE] ELSE WoohooFields(line, m, <<>>)

\* REGEX_WOOHOO of run_reformat_json ends with (?P<employee>.+?)\.?$: at
\* least one word, and all the words to the end of the line but a last "."
WebMatchWoohoo(line) ==
    LET m == MatchFrom(line, 1, Append(WoohooHead, Lit(".+"))) IN
    IF ~m.ok THEN [ok |-> FALSE]
    ELSE LET rest == SubSeq(line, m.at[8] + 1, Len(line))
         IN WoohooFields(line, m,
               IF Len(rest) > 1 /\ rest[Len(rest)] = "."
               THEN SubSeq(rest, 1, Len(rest) - 1) ELSE rest)

\* str.rstrip('.')
RECURSIVE RStripDot(_)
RStripDot(text) ==
    IF text # <<>> /\ text[Len(text)] = "."
    THEN RStripDot(SubSeq(text, 1, Len(text) - 1))
    ELSE text

\* [line.strip() for line in full_body.splitlines() if line.strip()]
CleanedLines(full_body) ==
    LET stripped == [k \in 1..Len(full_body) |-> Strip(full_body[k])]
    IN SelectSeq(stripped, LAMBDA l : l # <<>>)

\* a scan that tries the Review pattern on every line before the Woohoo
\* pattern on any
ScanLines_ReviewAnywhereFirst(lines) ==
    LET reviews == {k \in 1..Len(lines) : MatchReview(lines[k]).ok}
        woohoos == {k \in 1..Len(lines) : MatchWoohoo(lines[k]).ok}
    IN IF reviews # {}
       THEN MatchReview(lines[CHOOSE k \in reviews : \A j \in reviews : k <= j])
       ELSE IF woohoos # {}
       THEN MatchWoohoo(lines[CHOOSE k \in woohoos : \A j \in woohoos : k <= j])
       ELSE [ok |-> FALSE]

\* the loop over cleaned_lines: the Review pattern, then the Woohoo pattern,
\* on each line in turn; the first match ends the loop
RECURSIVE ScanLines(_)
ScanLines(lines) ==
    IF lines = <<>> THEN [ok |-> FALSE]
    ELSE IF MatchReview(Head(lines)).ok THEN MatchReview(Head(lines))
    ELSE IF MatchWoohoo(Head(lines)).ok THEN MatchWoohoo(Head(lines))
    ELSE ScanLines(Tail(lines))

RECURSIVE WebScanLines(_)
WebScanLines(lines) ==
    IF lines = <<>> THEN [ok |-> FALSE]
    ELSE IF MatchReview(Head(lines)).ok THEN MatchReview(Head(lines))
    ELSE IF WebMatchWoohoo(Head(lines)).ok THEN WebMatchWoohoo(Head(lines))
    ELSE WebScanLines(Tail(lines))

\* full_body as one text: its lines joined by "\n"
RECURSIVE JoinLines(_)
JoinLines(full_body) ==
    IF full_body = <<>> THEN <<>>
    ELSE IF Len(full_body) = 1 THEN Head(full_body)
    ELSE Head(full_body) \o <<"\n">> \o JoinLines(Tail(full_body))

\* \s*
RECURSIVE SkipSpace(_, _)
SkipSpace(text, p) ==
    IF p <= Len(text) /\ text[p] \in Whitespace THEN SkipSpace(text, p + 1) ELSE p

\* REGEX_FEEDBACK.search(full_body): at the first "Customer feedback:" that
\* is followed by a quoted text or by "No feedback provided", the quote
\* (<<>> for the second alternative)
FeedbackMatch(text) ==
    LET quoted(p) == LET q == SkipSpace(text, p + 1) IN
                     /\ q <= Len(text) /\ text[q] = "\""
                     /\ \E c \in (q + 1)..Len(text) : text[c] = "\""
        none(p)   == LET q == SkipSpace(text, p + 1) IN
                     q <= Len(text) /\ text[q] = "No feedback provided"
        hits == {p \in 1..Len(text) :
                    LowerTok(text[p]) = "Customer feedback:" /\ (quoted(p) \/ none(p))}
    IN IF hits = {} THEN [ok |-> FALSE, quote |-> <<>>]
       ELSE LET p == CHOOSE x \in hits : \A y \in hits : x <= y
                q == SkipSpace(text, p + 1)
            IN IF quoted(p)
               THEN LET c == CHOOSE x \in (q + 1)..Len(text) :
                                /\ text[x] = "\""
                                /\ \A y \in (q + 1)..(x - 1) : text[y] # "\""
                    IN [ok |-> TRUE, quote |-> SubSeq(text, q + 1, c - 1)]
               ELSE [ok |-> TRUE, quote |-> <<>>]

NoFeedback == <<"No feedback provided.">>

\* feedback_text
FeedbackText(full_body) ==
    LET fb == FeedbackMatch(JoinLines(full_body)) IN
    IF fb.ok /\ fb.quote # <<>> THEN Strip(fb.quote) ELSE NoFeedback

\* a summary sentence worded "gave a", as the notification emails are
SummarySentence_AsInEmail(m) ==
    Strip(m.customer) \o <<"from">> \o Strip(m.company) \o <<"gave a">>
        \o Strip(m.rating) \o <<"rating to">> \o RStripDot(Strip(m.employee))
        \o <<"for">> \o Strip(m.categories) \o <<"on ticket#", m.ticket_id, "(">>
        \o Strip(m.ticket_desc) \o <<").">>

\* summary_sentence
SummarySentence(m) ==
    Strip(m.customer) \o <<"from">> \o Strip(m.company) \o <<"just gave a">>
        \o Strip(m.rating) \o <<"rating to">> \o RStripDot(Strip(m.employee))
        \o <<"for">> \o Strip(m.categories) \o <<"on ticket#", m.ticket_id, "(">>
        \o Strip(m.ticket_desc) \o <<").">>

\* None
NoRecord == [ticket_number |-> 0]

RecordOf(m, full_body) ==
    [ticket_number     |-> NumberOf(m.ticket_id),
     summary           |-> SummarySentence(m),
     customer_feedback |-> FeedbackText(full_body)]

ExtractSurveyFromEmail(email) ==
    IF ~ContainsLower(email.Subject, "rating") THEN NoRecord
    ELSE LET m == ScanLines(CleanedLines(email.FullBody)) IN
         IF ~m.ok THEN NoRecord ELSE RecordOf(m, email.FullBody)

\* the gate, the line scan and the record of run_reformat_json
WebExtract(email) ==
    IF ~ContainsLower(email.Subject, "rating")
          /\ ~ContainsLower(JoinLines(email.FullBody), "gave a")
    THEN NoRecord
    ELSE LET m == WebScanLines(CleanedLines(email.FullBody)) IN
         IF ~m.ok THEN NoRecord ELSE RecordOf(m, email.FullBody)

\* an index that keeps the record a ticket already has
PutSurvey_KeepsFirst(idx, result) ==
    [x \in DOMAIN idx \cup {result.ticket_number} |->
        IF x \in DOMAIN idx THEN idx[x] ELSE result]

\* surveys[ticket_number] = result
PutSurvey(idx, result) ==
    [x \in DOMAIN idx \cup {result.ticket_number} |->
        IF x = result.ticket_number THEN result ELSE idx[x]]

\* one email of main's loop: a record that overwrites another adds nothing
\* to "Surveys extracted", which is the size of the index
ReformatEmail(email, idx) ==
    LET result == ExtractSurveyFromEmail(email) IN
    IF result = NoRecord
    THEN [surveys |-> idx, outcome |-> "skipped"]
    ELSE [surveys |-> PutSurvey(idx, result),
          outcome |-> IF result.ticket_number \in DOMAIN idx THEN "none" ELSE "updated"]

\* one email of run_reformat_json's loop
RunReformatEmail(email, idx) ==
    LET result == WebExtract(email) IN
    IF result = NoRecord
    THEN [surveys |-> idx, outcome |-> "skipped"]
    ELSE [surveys |-> PutSurvey(idx, result),
          outcome |-> IF result.ticket_number \in DOMAIN idx THEN "none" ELSE "updated"]

-----------------------------------------------------------------------------
(* Counters and bookkeeping shared by the entry points *)

ZeroTally == [updated |-> 0, skipped |-> 0, error |-> 0]

AddOutcome(t, o) == IF o = "none" THEN t ELSE [t EXCEPT ![o] = @ + 1]

Total(t) == t.updated + t.skipped + t.error

Mutating(c) == c.op \in {"DELETE", "POST", "PATCH_FIELD", "PATCH_RATING"}

\* the status each call site tests for
Accepted(c) ==
    CASE c.op \in {"GET_NOTES", "GET_TICKET"} -> c.resp = "200"
      [] c.op \in {"DELETE", "PATCH_FIELD"}   -> c.resp \in {"200", "204"}
      [] c.op = "POST"                        -> c.resp = "201"
      [] c.op = "PATCH_RATING"                -> c.resp = "200"

NoLast == [ticket |-> 0, log |-> <<>>, fetched |-> <<>>, before |-> <<>>,
           outcome |-> "none"]

Faults(log) == Cardinality({k \in 1..Len(log) : ~Accepted(log[k])})

Created(log) == Cardinality({k \in 1..Len(log) : log[k].op = "POST" /\ log[k].resp = "201"})

\* what processing one item leaves behind: its calls, its classification
\* under the run's own flag and (dryOutcome) under the dry-run flag
Commit(t, before, fetched, log, outcome, crashed, dryOutcome) ==
    /\ faults + Faults(log) <= MaxFaults
    /\ last' = [ticket |-> t, log |-> log, fetched |-> fetched,
                before |-> before, outcome |-> outcome]
    /\ nCalls' = nCalls + Len(log)
    /\ nMut' = nMut + Cardinality({k \in 1..Len(log) : Mutating(log[k])})
    /\ faults' = faults + Faults(log)
    /\ mutOk' = (mutOk /\ \A k \in 1..Len(log) : Mutating(log[k]) => Accepted(log[k]))
    /\ tally' = AddOutcome(tally, outcome)
    /\ dryTally' = AddOutcome(dryTally, dryOutcome)
    /\ nextId' = nextId + Created(log)
    /\ i' = i + 1
    /\ pc' = IF crashed THEN "crashed" ELSE pc

-----------------------------------------------------------------------------
(* Inputs of the note flows *)

CredNames == {"CW_COMPANY_ID", "CW_PUBLIC_KEY", "CW_PRIVATE_KEY", "CW_CLIENT_ID"}

\* one survey record per ticket, as reformatJSON writes them; the second
\* carries trailing whitespace for strip() to remove
SurveyRecord(t) ==
    IF t = 1
    THEN [ticket_number |-> 1,
          summary |-> <<"Jane from Acme", JGA, "Positive rating to Bob for Speed on ticket# 1 (Fixed printer).">>,
          customer_feedback |-> <<"Great job">>]
    ELSE [ticket_number |-> t,
          summary |-> <<"Raj from Initech", JGA, "Negative rating to Eve for Time on ticket# 2 (VPN down).">>,
          customer_feedback |-> <<"No feedback provided.", "\n">>]

\* an entry without ticket_number: the defaults of entry.get()
MissingEntry ==
    [ticket_number |-> MissingTicket, summary |-> <<>>,
     customer_feedback |-> <<"No feedback provided.">>]

Entries == {SurveyRecord(t) : t \in NoteTickets} \cup {MissingEntry}

BatchTickets(b) == {b[k].ticket_number : k \in 1..Len(b)} \ {MissingTicket}

\* batches as reformatJSON writes them: one record per ticket, ascending by
\* ticket_number; entries without a ticket number may stand anywhere
NoteBatches ==
    {b \in UNION {[1..n -> Entries] : n \in 0..MaxBatch} :
        \A j, k \in 1..Len(b) :
            (j < k /\ b[j].ticket_number # MissingTicket
                   /\ b[k].ticket_number # MissingTicket)
                => b[j].ticket_number < b[k].ticket_number}

PlainNote == [text |-> <<"Called the customer back">>, createdBy |-> "jsmith"]
OldAutoNote ==
    [text |-> NoteText(<<"Ann from Ace", JGA, "Negative rating to Al for Skill on ticket# 1 (Email).">>,
                       <<"No feedback provided.">>),
     createdBy |-> "Crewhu API"]
ManualBothNote ==
    [text |-> <<"FYI the customer", JGA, "call;", CF, "none yet">>, createdBy |-> "jsmith"]
OnlyJGANote == [text |-> <<"Customer", JGA, "thumbs up on the phone">>, createdBy |-> "jsmith"]
OnlyCFNote == [text |-> <<CF, "still pending">>, createdBy |-> "jsmith"]

Numbered(ns) == [k \in 1..Len(ns) |-> [id |-> k, text |-> ns[k].text,
                                        createdBy |-> ns[k].createdBy]]

\* what a ticket holds before the first run
NoteFixtures ==
    {Numbered(f) : f \in {<<>>,
                          <<OldAutoNote>>,
                          <<OnlyJGANote, OnlyCFNote>>,
                          <<PlainNote, OldAutoNote, ManualBothNote>>}}

MaxNoteId(nt) ==
    LET ids == UNION {{nt[t][k].id : k \in 1..Len(nt[t])} : t \in DOMAIN nt} \cup {0}
    IN CHOOSE m \in ids : \A x \in ids : x <= m

NoFields == [t \in Tickets |-> <<>>]
NoRating == [t \in Tickets |-> ""]

-----------------------------------------------------------------------------
(* The note flows as a state machine *)

InitNotes ==
    /\ entry \in {"notes", "web_notes", "cleanup"}
    /\ dryRun \in BOOLEAN
    /\ missing = {}
    /\ csv = <<>>
    /\ input \in NoteBatches
    /\ notifs = <<>>
    /\ pc = "start"
    /\ i = 1
    /\ run = 1
    /\ tally = ZeroTally
    /\ dryTally = ZeroTally
    /\ mutOk = TRUE
    /\ faults = 0
    /\ nCalls = 0
    /\ nMut = 0
    /\ last = NoLast
    /\ notes \in {nt \in [NoteTickets -> NoteFixtures] :
                    \A t \in NoteTickets : t \notin BatchTickets(input) => nt[t] = <<>>}
    /\ nextId = MaxNoteId(notes) + 1
    /\ fields = NoFields
    /\ rating = NoRating
    /\ surveys = <<>>
    /\ written = FALSE
    /\ WebInit

\* validate_credentials(): the names whose value is unset or empty
ValidateCredentials(miss) == [is_valid |-> miss = {}, missing |-> miss]

\* the entry points that check the credentials before they start
ChecksCredentials(en) == en \in {"links", "ratings", "web_ratings", "web_notes"}

Start ==
    /\ pc = "start"
    /\ IF ChecksCredentials(entry) /\ ~ValidateCredentials(missing).is_valid
       THEN pc' = "fatal" /\ input' = input
       ELSE /\ pc' = "loop"
            /\ IF entry = "links"
               THEN input' \in LoadTicketNumbersFromCsv(csv)
               ELSE input' = input
    /\ UNCHANGED <<webVars, entry, dryRun, missing, csv, notifs, i, run, tally, dryTally,
                   mutOk, faults, nCalls, nMut, last, notes, nextId, fields, rating,
                   surveys, written>>

NotesOf(t) == IF t = MissingTicket THEN <<>> ELSE notes[t]

PutNotes(t, ns) == IF t = MissingTicket THEN notes ELSE [notes EXCEPT ![t] = ns]

NoteEntry ==
    /\ pc = "loop" /\ entry = "notes" /\ i <= Len(input)
    /\ LET e == input[i]
           t == e.ticket_number
           ns == NotesOf(t)
       IN \E getResp \in GetResponses, postResp \in PostResponses :
          \E delResp \in [AutoPositions(ns) -> DeleteResponses] :
             LET r == NotesMainEntry(e, ns, dryRun, getResp, delResp, postResp, nextId)
                 d == NotesMainEntry(e, ns, TRUE, getResp, delResp, postResp, nextId)
             IN /\ notes' = PutNotes(t, r.notes)
                /\ Commit(t, ns, r.fetched, r.log, r.outcome, r.crashed, d.outcome)
    /\ UNCHANGED <<webVars, entry, dryRun, missing, csv, input, notifs, run, fields, rating,
                   surveys, written>>

WebNoteEntry ==
    /\ pc = "loop" /\ entry = "web_notes" /\ i <= Len(input)
    /\ LET e == input[i]
           t == e.ticket_number
           ns == NotesOf(t)
       IN \E getResp \in GetResponses, postResp \in PostResponses :
          \E delResp \in [AutoPositions(ns) -> DeleteResponses] :
             LET r == RunPostNotesEntry(e, ns, dryRun, getResp, delResp, postResp, nextId)
                 d == RunPostNotesEntry(e, ns, TRUE, getResp, delResp, postResp, nextId)
             IN /\ notes' = PutNotes(t, r.notes)
                /\ Commit(t, ns, r.fetched, r.log, r.outcome, r.crashed, d.outcome)
    /\ UNCHANGED <<webVars, entry, dryRun, missing, csv, input, notifs, run, fields, rating,
                   surveys, written>>

CleanupEntry ==
    /\ pc = "loop" /\ entry = "cleanup" /\ i <= Len(input)
    /\ LET e == input[i]
           t == e.ticket_number
           ns == NotesOf(t)
       IN \E getResp \in GetResponses :
          \E delResp \in [AutoPositions(ns) -> DeleteResponses] :
             LET r == CleanupMainEntry(e, ns, dryRun, getResp, delResp)
                 d == CleanupMainEntry(e, ns, TRUE, getResp, delResp)
             IN /\ notes' = PutNotes(t, r.notes)
                /\ Commit(t, ns, r.fetched, r.log, r.outcome, r.crashed, d.outcome)
    /\ UNCHANGED <<webVars, entry, dryRun, missing, csv, input, notifs, run, fields, rating,
                   surveys, written>>

\* the summary after the loop
Finish ==
    /\ pc = "loop" /\ i > Len(input)
    /\ pc' = "done"
    /\ written' = (entry \in {"reformat", "web_reformat"} /\ ~dryRun)
    /\ UNCHANGED <<webVars, entry, dryRun, missing, csv, input, notifs, i, run, tally, dryTally,
                   mutOk, faults, nCalls, nMut, last, notes, nextId, fields, rating,
                   surveys>>

\* the same entry point is started again on the same input
Rerun ==
    /\ pc = "done" /\ run < MaxRuns
    /\ pc' = "start"
    /\ run' = run + 1
    /\ i' = 1
    /\ tally' = ZeroTally
    /\ dryTally' = ZeroTally
    /\ nCalls' = 0
    /\ nMut' = 0
    /\ last' = NoLast
    /\ written' = FALSE
    /\ UNCHANGED <<webVars, entry, dryRun, missing, csv, input, notifs, mutOk, faults, notes,
                   nextId, fields, rating, surveys>>

NextNotes == Start \/ NoteEntry \/ WebNoteEntry \/ CleanupEntry \/ Finish \/ Rerun

SpecNotes == InitNotes /\ [][NextNotes]_vars

-----------------------------------------------------------------------------
(* Inputs of the other entry points *)

\* cells of the Ticket# column
CsvCells ==
    {<<"1">>, <<"1", ".", "0">>, <<"0", "1">>, <<" ", "2", " ">>,
     <<"1", "2", ".", "3", "4">>, <<"a", "b">>}

CsvColumns == UNION {[1..n -> CsvCells] : n \in 0..MaxBatch}

SurveyUrl(token) == <<"https://web.crewhu.com/#/managesurvey/form/", token>>

NotifFixtures ==
    {<<>>,
     <<[ticket |-> 1, url |-> SurveyUrl("abc123") \o <<".">>],
       [ticket |-> 12, url |-> SurveyUrl("xyz789")]>>,
     <<[ticket |-> 2, url |-> <<>>],
       [ticket |-> 0, url |-> SurveyUrl("nomark")],
       [ticket |-> 2, url |-> SurveyUrl("def456")]>>,
     <<[ticket |-> 12, url |-> SurveyUrl("xyz789")],
       [ticket |-> 1, url |-> SurveyUrl("abc123")]>>}

FieldFixtures ==
    {<<>>,
     <<[caption |-> "Department", value |-> <<"IT">>]>>,
     <<[caption |-> "Latest Crewhu Survey", value |-> <<"old">>],
       [caption |-> "CrewHu Rating", value |-> <<"old">>]>>,
     <<[caption |-> "Latest Crewhu Survey", value |-> <<"old">>],
       [caption |-> "Department", value |-> <<"IT">>],
       [caption |-> "Latest Crewhu Survey", value |-> <<"old">>]>>,
     <<[caption |-> "Latest Crewhu Survey", value |-> SurveyUrl("abc123")]>>}

RatingRows ==
    {[Ticket |-> <<"1">>, Rating |-> "Awesome"],
     [Ticket |-> <<"2", ".", "0">>, Rating |-> " positive "],
     [Ticket |-> <<"1", "2">>, Rating |-> "NEGATIVE"],
     [Ticket |-> <<"1">>, Rating |-> "Good"],
     [Ticket |-> <<"a", "b", "c">>, Rating |-> "Awesome"]}

RowBatches == UNION {[1..n -> RatingRows] : n \in 0..MaxBatch}

RatingSubject == <<"New", "Rating", "received">>
OtherSubject == <<"Weekly", "report">>

HeaderLine == <<"EXTERNAL EMAIL">>
BlankLine == <<" ">>

ReviewLine1 ==
    <<" ", "Jane", "from", "Acme", "gave a", "Positive", "rating to", "Bob", "for",
      "Speed", "on ticket#", "1", "(", "Fixed printer", ")", ".">>

ReviewLine1b ==
    <<"Ann", "from", "Ace", "Gave a", "Negative", "Rating to", "Al", ".", "for",
      "Skill", "on ticket#", "1", "(", "Email", ")", ".">>

WoohooLine2 ==
    <<"Raj", "from", "Initech", "gave a", "Negative", "Rating for", "Time",
      "on ticket#", "2", "(", "VPN down", ")", "to your colleague", "Eve", ".">>

\* a line both patterns match, on different ticket numbers
BothLine ==
    <<"Raj", "from", "Initech", "gave a", "Negative", "Rating for", "Time",
      "on ticket#", "2", "(", "VPN down", ")", "to your colleague",
      "gave a", "Positive", "rating to", "Bob", "for", "Speed",
      "on ticket#", "12", "(", "Fixed printer", ")">>

QuotedFeedbackLine == <<"Customer feedback:", " ", "\"", "Great job", " ", "\"">>
NoFeedbackLine == <<"Customer feedback:", "No feedback provided">>

Emails ==
    {[Subject |-> RatingSubject,
      FullBody |-> <<HeaderLine, BlankLine, ReviewLine1, QuotedFeedbackLine>>],
     [Subject |-> RatingSubject,
      FullBody |-> <<HeaderLine, WoohooLine2, ReviewLine1b, NoFeedbackLine>>],
     [Subject |-> RatingSubject, FullBody |-> <<ReviewLine1b>>],
     [Subject |-> RatingSubject, FullBody |-> <<HeaderLine, BlankLine>>],
     [Subject |-> OtherSubject, FullBody |-> <<WoohooLine2, QuotedFeedbackLine>>],
     [Subject |-> RatingSubject, FullBody |-> <<BothLine>>]}

EmailBatches == UNION {[1..n -> Emails] : n \in 0..MaxBatch}

EntryPoints == {"links", "ratings", "notes", "cleanup", "reformat",
                "web_reformat", "web_ratings", "web_notes"}

NoteFlows == {"notes", "web_notes", "cleanup"}

\* the entry points that read the CW_* variables of the environment
\* (POST_Notes_Internal.py holds its four values in the file)
ReadsEnvironment(en) == en \in {"links", "ratings", "cleanup", "web_ratings", "web_notes"}

CredStates == {{}} \cup {{c} : c \in CredNames} \cup {CredNames}

InputsOf(en) ==
    CASE en = "links"                         -> {<<>>}
      [] en \in {"ratings", "web_ratings"}    -> RowBatches
      [] en \in {"reformat", "web_reformat"}  -> EmailBatches
      [] OTHER                                -> NoteBatches

-----------------------------------------------------------------------------
(* All entry points as a state machine *)

Init ==
    /\ entry \in EntryPoints
    /\ dryRun \in BOOLEAN
    /\ missing \in (IF ReadsEnvironment(entry) THEN CredStates ELSE {{}})
    /\ csv \in (IF entry = "links" THEN CsvColumns ELSE {<<>>})
    /\ input \in InputsOf(entry)
    /\ notifs \in (IF entry = "links" THEN NotifFixtures ELSE {<<>>})
    /\ pc = "start"
    /\ i = 1
    /\ run = 1
    /\ tally = ZeroTally
    /\ dryTally = ZeroTally
    /\ mutOk = TRUE
    /\ faults = 0
    /\ nCalls = 0
    /\ nMut = 0
    /\ last = NoLast
    /\ notes \in (IF entry \in NoteFlows
                  THEN {nt \in [NoteTickets -> NoteFixtures] :
                          \A t \in NoteTickets :
                              t \notin BatchTickets(input) => nt[t] = <<>>}
                  ELSE {[t \in NoteTickets |-> <<>>]})
    /\ nextId = MaxNoteId(notes) + 1
    /\ fields \in (IF entry = "links"
                   THEN {[t \in Tickets |-> f] : f \in FieldFixtures}
                   ELSE {NoFields})
    /\ rating = NoRating
    /\ surveys = <<>>
    /\ written = FALSE
    /\ WebInit

LinkTicket ==
    /\ pc = "loop" /\ entry = "links" /\ i <= Len(input)
    /\ LET t == TicketOf(input[i]) IN
       \E getResp \in GetResponses, patchResp \in PatchResponses :
          LET r == LinksMainTicket(input[i], notifs, fields[t], dryRun, getResp, patchResp)
              d == LinksMainTicket(input[i], notifs, fields[t], TRUE, getResp, patchResp)
          IN /\ fields' = [fields EXCEPT ![t] = r.fields]
             /\ Commit(t, <<>>, <<>>, r.log, r.outcome, r.crashed, d.outcome)
    /\ UNCHANGED <<webVars, entry, dryRun, missing, csv, input, notifs, run, notes, rating,
                   surveys, written>>

RowTicket(row) == IF IsDigit(BeforeDot(row.Ticket)) THEN TicketOf(BeforeDot(row.Ticket)) ELSE 0

RatingRow ==
    /\ pc = "loop" /\ entry = "ratings" /\ i <= Len(input)
    /\ \E patchResp \in PatchResponses :
          LET r == RatingsMainRow(input[i], rating, dryRun, patchResp)
              d == RatingsMainRow(input[i], rating, TRUE, patchResp)
          IN /\ rating' = r.rating
             /\ Commit(RowTicket(input[i]), <<>>, <<>>, r.log, r.outcome, r.crashed,
                       d.outcome)
    /\ UNCHANGED <<webVars, entry, dryRun, missing, csv, input, notifs, run, notes, fields,
                   surveys, written>>

WebRatingRow ==
    /\ pc = "loop" /\ entry = "web_ratings" /\ i <= Len(input)
    /\ \E patchResp \in PatchResponses :
          LET r == RunPostRatingsRow(input[i], rating, dryRun, patchResp)
              d == RunPostRatingsRow(input[i], rating, TRUE, patchResp)
          IN /\ rating' = r.rating
             /\ Commit(RowTicket(input[i]), <<>>, <<>>, r.log, r.outcome, r.crashed,
                       d.outcome)
    /\ UNCHANGED <<webVars, entry, dryRun, missing, csv, input, notifs, run, notes, fields,
                   surveys, written>>

ReformatStep ==
    /\ pc = "loop" /\ entry = "reformat" /\ i <= Len(input)
    /\ LET r == ReformatEmail(input[i], surveys)
       IN /\ surveys' = r.surveys
          /\ Commit(ExtractSurveyFromEmail(input[i]).ticket_number, <<>>, <<>>, <<>>,
                    r.outcome, FALSE, r.outcome)
    /\ UNCHANGED <<webVars, entry, dryRun, missing, csv, input, notifs, run, notes, fields,
                   rating, written>>

WebReformatStep ==
    /\ pc = "loop" /\ entry = "web_reformat" /\ i <= Len(input)
    /\ LET r == RunReformatEmail(input[i], surveys)
       IN /\ surveys' = r.surveys
          /\ Commit(WebExtract(input[i]).ticket_number, <<>>, <<>>, <<>>,
                    r.outcome, FALSE, r.outcome)
    /\ UNCHANGED <<webVars, entry, dryRun, missing, csv, input, notifs, run, notes, fields,
                   rating, written>>

Next ==
    \/ Start
    \/ NoteEntry \/ WebNoteEntry \/ CleanupEntry
    \/ LinkTicket
    \/ RatingRow \/ WebRatingRow
    \/ ReformatStep \/ WebReformatStep
    \/ Finish

Spec == Init /\ [][Next]_vars

-----------------------------------------------------------------------------
(* The web front-end: progress queues, streams and batch threads *)

MaxThreads == 2     \* batch threads started in one behaviour
MaxStreams == 2     \* /api/stream requests served in one behaviour
MaxQueue == 2       \* progress statuses a batch puts while that many are pending

\* the session ids the requests carry; "default" is what a batch-start
\* request without session_id gets
Sessions == {"default", "s1"}

BatchRoutes == {"parse-emails", "post-ratings", "post-notes"}

\* the status dict put by send_status: its type, and the thread that put it
Status(type, writer) == [type |-> type, writer |-> writer]

\* the batch-start routes: parse-emails and post-ratings answer 400 when
\* the request names no file, post-notes falls back to the default file;
\* otherwise a thread is started for the session, whatever is running
StartsThread(route, hasFile) == route = "post-notes" \/ hasFile

StartBatch ==
    /\ Len(threads) < MaxThreads
    /\ \E sid \in Sessions, route \in BatchRoutes, hasFile \in BOOLEAN :
          /\ StartsThread(route, hasFile)
          /\ threads' = Append(threads, [session |-> sid, route |-> route,
                                         running |-> TRUE])
    /\ UNCHANGED <<batchVars, status_queues, queues, streams>>

\* send_status(session_id, ...): put on the session's registered queue, or
\* nothing when the session has none
SendStatus(sid, status) ==
    IF sid \in DOMAIN status_queues
    THEN [queues EXCEPT ![status_queues[sid]] = Append(@, status)]
    ELSE queues

\* one progress status of a running batch (run_reformat_json,
\* run_post_ratings, run_post_notes)
BatchProgress ==
    /\ \E t \in 1..Len(threads) :
          /\ threads[t].running
          /\ threads[t].session \in DOMAIN status_queues
          /\ Len(queues[status_queues[threads[t].session]]) < MaxQueue
          /\ queues' = SendStatus(threads[t].session, Status("info", t))
    /\ UNCHANGED <<batchVars, status_queues, streams, threads>>

\* run_task: the batch returned, the "done" status is put and the thread ends
BatchDone ==
    /\ \E t \in 1..Len(threads) :
          /\ threads[t].running
          /\ queues' = SendStatus(threads[t].session, Status("done", t))
          /\ threads' = [threads EXCEPT ![t].running = FALSE]
    /\ UNCHANGED <<batchVars, status_queues, streams>>

\* /api/stream/<session_id>: a generator is created; done is the thread
\* whose "done" status the generator yielded last, 0 while it yielded none
StreamOpen ==
    /\ Len(streams) < MaxStreams
    /\ \E sid \in Sessions :
          streams' = Append(streams, [session |-> sid, pc |-> "check", q |-> 0,
                                        done |-> 0])
    /\ UNCHANGED <<batchVars, status_queues, queues, threads>>

\* get_status_queue, the membership test
GetStatusQueueCheck ==
    /\ \E r \in 1..Len(streams) :
          /\ streams[r].pc = "check"
          /\ streams' = [streams EXCEPT ![r].pc =
                            IF streams[r].session \in DOMAIN status_queues
                            THEN "return" ELSE "create"]
    /\ UNCHANGED <<batchVars, status_queues, queues, threads>>

\* get_status_queue, status_queues[session_id] = queue.Queue()
GetStatusQueueCreate ==
    /\ \E r \in 1..Len(streams) :
          /\ streams[r].pc = "create"
          /\ queues' = Append(queues, <<>>)
          /\ status_queues' = (streams[r].session :> Len(queues) + 1) @@ status_queues
          /\ streams' = [streams EXCEPT ![r].pc = "return"]
    /\ UNCHANGED <<batchVars, threads>>

\* get_status_queue, return status_queues[session_id]
GetStatusQueueReturn ==
    /\ \E r \in 1..Len(streams) :
          /\ streams[r].pc = "return"
          /\ streams' = [streams EXCEPT ![r].pc = "loop",
                                        ![r].q = status_queues[streams[r].session]]
    /\ UNCHANGED <<batchVars, status_queues, queues, threads>>

\* generate(): q.get() took a status; the generator ends on "done".  A
\* timeout yields a keepalive and changes nothing
StreamGet ==
    /\ \E r \in 1..Len(streams) :
          /\ streams[r].pc = "loop"
          /\ queues[streams[r].q] # <<>>
          /\ queues' = [queues EXCEPT ![streams[r].q] = Tail(@)]
          /\ streams' = [streams EXCEPT ![r] =
                            IF Head(queues[streams[r].q]).type = "done"
                            THEN [@ EXCEPT !.pc = "closed",
                                           !.done = Head(queues[streams[r].q]).writer]
                            ELSE @]
    /\ UNCHANGED <<batchVars, status_queues, threads>>

InitWeb ==
    /\ entry = "web_notes"
    /\ dryRun = TRUE
    /\ missing = {}
    /\ csv = <<>>
    /\ input = <<>>
    /\ notifs = <<>>
    /\ pc = "start"
    /\ i = 1
    /\ run = 1
    /\ tally = ZeroTally
    /\ dryTally = ZeroTally
    /\ mutOk = TRUE
    /\ faults = 0
    /\ nCalls = 0
    /\ nMut = 0
    /\ last = NoLast
    /\ notes = [t \in NoteTickets |-> <<>>]
    /\ nextId = 1
    /\ fields = NoFields
    /\ rating = NoRating
    /\ surveys = <<>>
    /\ written = FALSE
    /\ WebInit

NextWeb ==
    \/ StartBatch \/ BatchProgress \/ BatchDone
    \/ StreamOpen \/ GetStatusQueueCheck \/ GetStatusQueueCreate
    \/ GetStatusQueueReturn \/ StreamGet

SpecWeb == InitWeb /\ [][NextWeb]_vars

\* a started thread runs to its end and a generator is driven as long as it
\* has a step to take; requests arrive or not
SpecWebFair ==
    /\ SpecWeb
    /\ WF_vars(BatchProgress) /\ WF_vars(BatchDone)
    /\ WF_vars(GetStatusQueueCheck) /\ WF_vars(GetStatusQueueCreate)
    /\ WF_vars(GetStatusQueueReturn) /\ WF_vars(StreamGet)

-----------------------------------------------------------------------------
(* Properties *)

PostIndex(log) == {k \in 1..Len(log) : log[k].op = "POST"}

DeletedIn(log, id) == \E j \in 1..Len(log) : log[j].op = "DELETE" /\ log[j].id = id

\* an item of the batch has been processed in this run
Processed == last.ticket # MissingTicket

\* C1: in dry-run mode no entry point issues a PATCH, POST or DELETE call,
\* whatever the batch and whatever the remote answers.
C1_DryRunNoMutation == dryRun => nMut = 0

\* a dry run of the link update that read a ticket and reported an update
C1_Witness ==
    /\ dryRun /\ pc = "done" /\ entry = "links"
    /\ nCalls > 0 /\ tally.updated > 0

\* C2: in a note-posting run that is not dry, the POST of a ticket's new note
\* comes after the fetch of its notes and after a DELETE of every fetched
\* note the content test recognizes.
C2_DeleteBeforePost ==
    (entry \in {"notes", "web_notes"} /\ ~dryRun /\ Processed) =>
        \A p \in PostIndex(last.log) :
            /\ last.log[1].op = "GET_NOTES"
            /\ \A n \in 1..Len(last.fetched) :
                  IsAutomationNote(last.fetched[n].text) =>
                     \E j \in 1..(p - 1) : /\ last.log[j].op = "DELETE"
                                          /\ last.log[j].id = last.fetched[n].id

\* the note each ticket's record yields
ExpectedNote(t) ==
    IF t = 1
    THEN <<"Jane from Acme", "just gave a",
           "Positive rating to Bob for Speed on ticket# 1 (Fixed printer).",
           "\n\n", "Customer feedback:", "\n", "Great job">>
    ELSE <<"Raj from Initech", "just gave a",
           "Negative rating to Eve for Time on ticket# 2 (VPN down).",
           "\n\n", "Customer feedback:", "\n", "No feedback provided.">>

AutomationTexts(ns) ==
    {ns[k].text : k \in {j \in 1..Len(ns) : Contains(ns[j].text, "just gave a")
                                           /\ Contains(ns[j].text, "Customer feedback:")}}

\* C3: after any number of consecutive note-posting runs that are not dry and
\* in which every remote call succeeded, every ticket of the records holds
\* exactly one automation note, the one built from its record.
C3_RerunIdempotent ==
    (entry \in {"notes", "web_notes"} /\ ~dryRun /\ pc = "done" /\ faults = 0) =>
        \A k \in 1..Len(input) :
            LET t == input[k].ticket_number IN
            t # MissingTicket =>
                /\ CountAutomation(notes[t]) = 1
                /\ AutomationTexts(notes[t]) = {ExpectedNote(t)}

\* a second run that deleted the note the first run posted
C3_Witness ==
    /\ entry = "notes" /\ ~dryRun /\ pc = "done" /\ run = 2 /\ faults = 0
    /\ Len(input) = 2 /\ Processed
    /\ \E n \in 1..Len(last.before) : last.before[n].text = ExpectedNote(last.ticket)
    /\ CountAutomation(notes[last.ticket]) = 1

CleanupAccepted(log) ==
    \A k \in 1..Len(log) : log[k].op \in {"GET_NOTES", "DELETE"} => Accepted(log[k])

C5_DeleteIffRecognized ==
    (entry \in NoteFlows /\ ~dryRun /\ Processed) =>
        \A n \in 1..Len(last.fetched) :
            DeletedIn(last.log, last.fetched[n].id)
                <=> IsAutomationNote(last.fetched[n].text)

C7_EveryItemClassified == pc = "done" => Total(tally) = Len(input)

KeepsCounters(en) == en \in {"links", "ratings", "web_ratings", "web_notes"}

\* C8: a ticket for which a remote call returned a status outside 2xx is
\* recorded as an error (stated for the entry points that keep counters).
C8_NonSuccessIsError ==
    (KeepsCounters(entry) /\ \E k \in 1..Len(last.log) : NonSuccess(last.log[k].resp))
    => last.outcome = "error"

\* C9: a remote call that raises (connection error, timeout) never ends the
\* run: the later tickets are still processed and the summary is reached.
C9_TransportFailureNeverAborts ==
    (\E k \in 1..Len(last.log) : last.log[k].resp = Raise) => pc # "crashed"

\* C10: with one of the four credential values absent, an entry point that
\* takes them from the environment stops before it issues any remote call.
C10_NoCallWithoutCredentials ==
    (ReadsEnvironment(entry) /\ missing # {}) => nCalls = 0

\* the canonical label the rating table gives a raw cell, "" where it gives none
CanonicalRating(label) ==
    CASE label \in {"Awesome", " positive "} -> "Positive"
      [] label = "NEGATIVE"                   -> "Negative"
      [] OTHER                                -> ""

\* C11: a rating row whose label the table does not map is counted as skipped,
\* with no remote call, no error and no value written; a row with a ticket
\* number and a mapped label gets, in a real run, one PATCH that carries the
\* canonical label, which the ticket holds once the PATCH is applied.
C11_UnmappedSkippedMappedWritten ==
    [][(entry \in {"ratings", "web_ratings"} /\ pc = "loop" /\ i' = i + 1) =>
         LET row == input[i]
             exp == CanonicalRating(row.Rating)
             t   == RowTicket(row)
         IN /\ exp = "" =>
                 /\ nCalls' = nCalls /\ rating' = rating
                 /\ tally' = [tally EXCEPT !.skipped = @ + 1]
            /\ (exp # "" /\ t # 0 /\ ~dryRun) =>
                 /\ nCalls' = nCalls + 1 /\ nMut' = nMut + 1
                 /\ last'.log[1].resp \in {"200", "204"} => rating'[t] = exp
                 /\ last'.log[1].resp \notin {"200", "204"} => rating' = rating]_vars

\* a real run wrote ticket 1's rating and then skipped a row whose label is
\* not in the table, leaving the written value in place
C11_Witness ==
    /\ entry \in {"ratings", "web_ratings"} /\ ~dryRun /\ pc = "done"
    /\ Len(input) = 2
    /\ input[1].Rating = "Awesome" /\ input[2].Rating = "Good"
    /\ RowTicket(input[1]) = 1 /\ RowTicket(input[2]) = 1
    /\ rating[1] = "Positive"
    /\ tally = [updated |-> 1, skipped |-> 1, error |-> 0]

\* C12: in a real link or rating run a ticket whose field already holds the
\* value to be written receives no mutating call (stated for the steps after
\* which the run goes on).
C12_UpdateOnlyIfDifferent ==
    [][(~dryRun /\ pc = "loop" /\ i' = i + 1 /\ pc' = "loop") =>
         /\ entry \in {"ratings", "web_ratings"} =>
              LET t == RowTicket(input[i]) IN
              (t # 0 /\ CanonicalRating(input[i].Rating) # ""
                  /\ rating[t] = CanonicalRating(input[i].Rating)) => nMut' = nMut
         /\ entry = "links" =>
              LET link == GetSurveyLinkForTicket(input[i], notifs)
                  fs   == fields[TicketOf(input[i])]
              IN (link # NoLink /\ fs # <<>>
                    /\ \A k \in 1..Len(fs) : fs[k].value = link) => nMut' = nMut]_vars

\* the position FieldSelect names: the last field whose caption is the survey
\* field's label when there is one, otherwise the last whose caption contains
\* "crewhu"; 0 when no field qualifies
SelectedPosition(fs) ==
    LET exact == {k \in 1..Len(fs) : fs[k].caption = "Latest Crewhu Survey"}
        crewhu == {k \in 1..Len(fs) :
                      fs[k].caption \in {"Latest Crewhu Survey", "CrewHu Rating"}}
        last_of(S) == CHOOSE k \in S : \A j \in S : j <= k
    IN IF exact # {} THEN last_of(exact)
       ELSE IF crewhu # {} THEN last_of(crewhu) ELSE 0

\* C13: the index in the path of a link run's PATCH is the position, counted
\* from 0, of the field FieldSelect names.
C13_PatchesSelectedField ==
    entry = "links" =>
        \A k \in 1..Len(last.log) :
            last.log[k].op = "PATCH_FIELD" =>
                last.log[k].id + 1 = SelectedPosition(fields[last.ticket])

\* the record the running reformat flow derives from an email
Derived(email) ==
    IF entry = "web_reformat" THEN WebExtract(email) ELSE ExtractSurveyFromEmail(email)

\* the emails processed so far that matched for ticket t
MatchedFor(t) == {k \in 1..(i - 1) : Derived(input[k]).ticket_number = t}

\* C14: after any prefix of the emails the index holds, for each ticket some
\* email of the prefix matched for, the record derived from the latest such
\* email, and nothing for any other ticket.
C14_LastWriteWins ==
    entry \in {"reformat", "web_reformat"} =>
        /\ DOMAIN surveys = {t \in Tickets : MatchedFor(t) # {}}
        /\ \A t \in DOMAIN surveys :
              \E k \in MatchedFor(t) :
                  /\ \A j \in MatchedFor(t) : j <= k
                  /\ surveys[t] = Derived(input[k])

\* two emails matched for ticket 1 with different records, the index holds
\* the second
C14_Witness ==
    /\ entry \in {"reformat", "web_reformat"} /\ i = 3
    /\ Derived(input[1]).ticket_number = 1
    /\ Derived(input[2]).ticket_number = 1
    /\ Derived(input[2]) # Derived(input[1])
    /\ surveys[1] = Derived(input[2])

\* C15: the ticket list the link update loads holds only digit strings, no
\* ticket number twice, and is strictly ascending by number.
C15_LoaderDigitsUniqueAscending ==
    (entry = "links" /\ pc \in {"loop", "done", "crashed"}) =>
        /\ \A k \in 1..Len(input) :
              input[k] # <<>> /\ \A c \in 1..Len(input[k]) : input[k][c] \in Digits
        /\ \A j, k \in 1..Len(input) : j < k => TicketOf(input[j]) < TicketOf(input[k])

\* the notifications whose body holds both the marker of ticket string t and
\* a survey link
Qualifying(t) ==
    {k \in 1..Len(notifs) : MarkerIn(t, notifs[k].ticket) /\ notifs[k].url # <<>>}

\* a link without its trailing ">" and "." characters
Trimmed(url) ==
    LET ends == {n \in 0..Len(url) : n = 0 \/ url[n] \notin {">", "."}}
    IN SubSeq(url, 1, CHOOSE n \in ends : \A m \in ends : m <= n)

\* the link find-first names for ticket string t, NoLink when there is none
FirstLink(t) ==
    IF Qualifying(t) = {} THEN NoLink
    ELSE Trimmed(notifs[CHOOSE k \in Qualifying(t) : \A j \in Qualifying(t) : k <= j].url)

\* C16: the link update treats a ticket with no qualifying notification as
\* not found (no remote call), and for any other ticket works with the
\* trimmed link of the first qualifying notification: that is the value an
\* applied PATCH leaves in the field.
C16_FindFirst ==
    (entry = "links" /\ i > 1 /\ pc # "start") =>
        LET t == input[i - 1] IN
        /\ FirstLink(t) = NoLink <=> (last.outcome = "skipped" /\ last.log = <<>>)
        /\ FirstLink(t) # NoLink =>
              /\ last.log # <<>> /\ last.log[1].op = "GET_TICKET"
              /\ \A k \in 1..Len(last.log) :
                    (last.log[k].op = "PATCH_FIELD" /\ last.log[k].resp \in {"200", "204"})
                    => fields[last.ticket][last.log[k].id + 1].value = FirstLink(t)

\* ticket 1 was patched with the trimmed link of the first of two
\* notifications that both hold its marker and a link
C16_Witness ==
    /\ entry = "links" /\ i > 1 /\ input[i - 1] = <<"1">>
    /\ Cardinality(Qualifying(<<"1">>)) = 2
    /\ notifs[1].url # FirstLink(<<"1">>)
    /\ \E k \in 1..Len(last.log) :
          /\ last.log[k].op = "PATCH_FIELD" /\ last.log[k].resp = "200"
          /\ fields[1][last.log[k].id + 1].value = SurveyUrl("abc123")

\* the match of either pattern on one line, the Review pattern first
LineMatch(line) ==
    IF MatchReview(line).ok THEN MatchReview(line)
    ELSE IF entry = "web_reformat" THEN WebMatchWoohoo(line) ELSE MatchWoohoo(line)

\* the non-empty trimmed lines of an email that match a pattern
MatchingLines(email) ==
    {k \in 1..Len(CleanedLines(email.FullBody)) :
        LineMatch(CleanedLines(email.FullBody)[k]).ok}

\* the email is a candidate of the running reformat flow
Admitted(email) ==
    \/ \E k \in 1..Len(email.Subject) : email.Subject[k] \in {"Rating", "rating"}
    \/ /\ entry = "web_reformat"
       /\ \E l \in 1..Len(email.FullBody) : \E k \in 1..Len(email.FullBody[l]) :
             email.FullBody[l][k] \in {"gave a", "Gave a"}

\* the email without the lines after its first matching line
UpToFirstMatch(email) ==
    IF MatchingLines(email) = {} THEN email
    ELSE LET k == CHOOSE x \in MatchingLines(email) : \A y \in MatchingLines(email) : x <= y
             body == email.FullBody
             \* position in FullBody of the k-th non-empty trimmed line
             pos == CHOOSE q \in 1..Len(body) :
                       Len(CleanedLines(SubSeq(body, 1, q))) = k
                       /\ Len(CleanedLines(SubSeq(body, 1, q - 1))) = k - 1
         IN [email EXCEPT !.FullBody = SubSeq(body, 1, pos)]

\* C17: the record of an email comes from its first non-empty trimmed line
\* that matches a pattern, the Review pattern tried first on that line; the
\* lines after it change neither ticket number nor summary; an email none of
\* whose lines matches is skipped.
C17_FirstMatchingLineWins ==
    (entry \in {"reformat", "web_reformat"} /\ i > 1) =>
        LET email == input[i - 1]
            lines == CleanedLines(email.FullBody)
            K     == MatchingLines(email)
        IN /\ K = {} => last.outcome = "skipped"
           /\ (K # {} /\ Admitted(email)) =>
                LET m == LineMatch(lines[CHOOSE x \in K : \A y \in K : x <= y])
                    t == NumberOf(m.ticket_id)
                IN /\ last.ticket = t
                   /\ t \in DOMAIN surveys
                   /\ surveys[t].ticket_number = t
                   /\ surveys[t].summary = SummarySentence(m)
                   /\ Derived(UpToFirstMatch(email)).summary = surveys[t].summary
                   /\ Derived(UpToFirstMatch(email)).ticket_number = t

\* an email whose second line is a Woohoo line for ticket 2 and whose third
\* line is a Review line for ticket 1 gave the record of ticket 2
C17_Witness ==
    /\ entry \in {"reformat", "web_reformat"} /\ i > 1
    /\ MatchingLines(input[i - 1]) = {2, 3}
    /\ MatchReview(CleanedLines(input[i - 1].FullBody)[3]).ok
    /\ ~MatchReview(CleanedLines(input[i - 1].FullBody)[2]).ok
    /\ last.ticket = 2 /\ 2 \in DOMAIN surveys /\ 1 \notin DOMAIN surveys

\* the words after "to your colleague" on a line, without one last "."
Colleague(line) ==
    LET p == CHOOSE q \in 1..Len(line) : line[q] = "to your colleague"
        rest == SubSeq(line, p + 1, Len(line))
    IN IF rest # <<>> /\ rest[Len(rest)] = "." THEN SubSeq(rest, 1, Len(rest) - 1)
       ELSE rest

\* C18: the summary derived from a Woohoo line names, between "rating to"
\* and "for", the colleague the line names, and that slot is not empty.
C18_WoohooNamesEmployee ==
    (entry \in {"reformat", "web_reformat"} /\ i > 1
        /\ Admitted(input[i - 1]) /\ MatchingLines(input[i - 1]) # {}) =>
        LET K    == MatchingLines(input[i - 1])
            line == CleanedLines(input[i - 1].FullBody)[CHOOSE x \in K : \A y \in K : x <= y]
            sum  == surveys[last.ticket].summary
        IN ~MatchReview(line).ok =>
              /\ Colleague(line) # <<>>
              /\ \E q \in 1..Len(sum) :
                    /\ sum[q] = "rating to"
                    /\ SubSeq(sum, q + 1, q + Len(Colleague(line))) = Colleague(line)
                    /\ q + Len(Colleague(line)) < Len(sum)
                    /\ sum[q + Len(Colleague(line)) + 1] = "for"

\* the fetch of the last ticket's notes succeeded and every recognized note
\* was deleted
OldNotesDeleted ==
    /\ last.log # <<>> /\ last.log[1].op = "GET_NOTES" /\ last.log[1].resp = "200"
    /\ \A n \in 1..Len(last.fetched) :
          IsAutomationNote(last.fetched[n].text) =>
             \E k \in 1..Len(last.log) :
                /\ last.log[k].op = "DELETE" /\ last.log[k].id = last.fetched[n].id
                /\ last.log[k].resp \in {"200", "204"}

PostFailed == \E k \in 1..Len(last.log) : last.log[k].op = "POST" /\ last.log[k].resp # "201"

PostSucceeded == \E k \in 1..Len(last.log) : last.log[k].op = "POST" /\ last.log[k].resp = "201"

\* C19: when a ticket's old automation notes were deleted and the POST then
\* failed, the ticket is left with no automation note and with its other
\* notes, the deleted ones not restored; when a ticket without automation
\* note is processed by a later run whose POST succeeds, it holds exactly
\* one, the one built from its record.
C19_NotTransactional ==
    (entry \in {"notes", "web_notes"} /\ ~dryRun /\ Processed) =>
        /\ (OldNotesDeleted /\ PostFailed) =>
              /\ CountAutomation(notes[last.ticket]) = 0
              /\ notes[last.ticket] =
                    SelectSeq(last.before,
                              LAMBDA n : ~(Contains(n.text, "just gave a")
                                           /\ Contains(n.text, "Customer feedback:")))
        /\ (run > 1 /\ CountAutomation(last.before) = 0 /\ PostSucceeded) =>
              /\ CountAutomation(notes[last.ticket]) = 1
              /\ AutomationTexts(notes[last.ticket]) = {ExpectedNote(last.ticket)}

\* a first run deleted the old automation note and its POST failed
C19_Witness ==
    /\ entry \in {"notes", "web_notes"} /\ ~dryRun /\ Processed /\ run = 1
    /\ CountAutomation(last.before) > 0
    /\ OldNotesDeleted /\ PostFailed
    /\ CountAutomation(notes[last.ticket]) = 0

\* the run after one whose POST failed posted the note: the only fault so
\* far was a mutating call of the first run, and the ticket came to the
\* second run with other notes but no automation note
C19_Recovered ==
    /\ entry \in {"notes", "web_notes"} /\ ~dryRun /\ Processed /\ run = 2
    /\ Len(input) = 1 /\ faults = 1 /\ ~mutOk
    /\ last.before # <<>> /\ CountAutomation(last.before) = 0
    /\ PostSucceeded
    /\ CountAutomation(notes[last.ticket]) = 1

\* the running batch threads of a session that has a progress queue
Writers(sid) ==
    {t \in 1..Len(threads) :
        /\ threads[t].running /\ threads[t].session = sid
        /\ sid \in DOMAIN status_queues}

\* C20: at any time at most one running batch thread writes to the
\* progress queue of a session
C20_SingleWriter == \A sid \in Sessions : Cardinality(Writers(sid)) <= 1

\* the pending statuses of one queue come from one thread only
C20_QueueOfOneWriter ==
    \A k \in 1..Len(queues) : \A a, b \in 1..Len(queues[k]) :
        queues[k][a].writer = queues[k][b].writer

\* batch thread t was started and the session has an observer
Observed(t) ==
    /\ t <= Len(threads)
    /\ \E r \in 1..Len(streams) : streams[r].session = threads[t].session

\* an observer of the session of thread t received the thread's "done"
\* status and its stream ended
GotDone(t) ==
    /\ t <= Len(threads)
    /\ \E r \in 1..Len(streams) :
          /\ streams[r].session = threads[t].session
          /\ streams[r].pc = "closed" /\ streams[r].done = t

\* C21: once a batch was started and its session has an observer, whether
\* the stream was opened before, during or after the batch, an observer of
\* the session eventually receives the batch's "done" status and its
\* stream ends
C21_ObserverGetsDone == \A t \in 1..MaxThreads : Observed(t) ~> GotDone(t)

\* the batch of a session ended before the session had a queue, and the
\* stream opened afterwards waits on an empty queue
C21_DoneLost ==
    /\ Len(threads) = 1 /\ ~threads[1].running
    /\ Len(streams) = 1 /\ streams[1].session = threads[1].session
    /\ streams[1].pc = "loop" /\ queues[streams[1].q] = <<>>

\* the text post_note and run_post_notes build from a record
PostedText(rec) == NoteText(Strip(rec.summary), Strip(rec.customer_feedback))

\* C22: the note text built from any record the extractor produced holds
\* both "just gave a" and "Customer feedback:", so the deletion step of a
\* later run recognizes it; and the note a note flow has just created is
\* one the deletion step recognizes.
C22_PostedNoteRecognized ==
    /\ entry \in {"reformat", "web_reformat"} =>
          \A t \in DOMAIN surveys :
             /\ Contains(PostedText(surveys[t]), JGA)
             /\ Contains(PostedText(surveys[t]), CF)
             /\ IsAutomationNote(PostedText(surveys[t]))
    /\ (entry \in {"notes", "web_notes"} /\ ~dryRun /\ Processed /\ PostSucceeded) =>
          \E n \in 1..Len(notes[last.ticket]) :
             /\ notes[last.ticket][n].text = ExpectedNote(last.ticket)
             /\ IsAutomationNote(notes[last.ticket][n].text)

\* the index holds a Review record with quoted feedback and a Woohoo record
C22_Witness ==
    /\ entry \in {"reformat", "web_reformat"}
    /\ DOMAIN surveys = {1, 2}
    /\ surveys[1].customer_feedback = <<"Great job">>
    /\ IsAutomationNote(PostedText(surveys[1]))
    /\ IsAutomationNote(PostedText(surveys[2]))

\* the trimmed links of the notifications whose body names ticket number d
LinksNaming(d) == {Trimmed(notifs[k].url) : k \in {j \in 1..Len(notifs) : notifs[j].ticket = d}}

\* C23: the link an applied PATCH of the link update leaves on a ticket
\* comes from a notification whose body names that very ticket, never from
\* one that names only another ticket whose number starts with the same
\* digits.
C23_LinkFromOwnTicket ==
    (entry = "links" /\ i > 1 /\ pc # "start") =>
        \A k \in 1..Len(last.log) :
            (last.log[k].op = "PATCH_FIELD" /\ last.log[k].resp \in {"200", "204"})
            => fields[last.ticket][last.log[k].id + 1].value
                  \in LinksNaming(TicketOf(input[i - 1]))

====
